---- MODULE Spec2Model ----
(***************************************************************************)
(* Model of src/compiler/serializer-hints.h: the persistent FunctionalSet  *)
(* (Add, Union, Includes, operator==, Size, Hash) over zone-allocated      *)
(* FunctionalList cells, and the VirtualContext constructor and equality.  *)
(***************************************************************************)
EXTENDS Integers, Sequences, FiniteSets, TLC

\* ---- bounds ----
MaxElem == 3        \* element values are 1..MaxElem
MaxCells == 4       \* capacity of the zone, in list cells
MaxDistance == 3    \* VirtualContext distances are 0..MaxDistance

Elems == 1..MaxElem
Regs == {1, 2}                  \* the FunctionalSet objects of the caller
Contexts == {"c1", "c2"}        \* the Context objects handles refer to

VARIABLES zone, sets, last, vcs, fatal
vars == <<zone, sets, last, vcs, fatal>>

\* ---- element equality and hashing (template parameters) ----
equal_to(a, b) == a = b

\* A hasher with collisions: 1 and 3 (2 and 4, ...) hash alike.
hasher(e) == ((e - 1) % 2) + 1

RECURSIVE Xor(_, _)
Xor(a, b) ==
  IF a = 0 THEN b
  ELSE IF b = 0 THEN a
  ELSE (((a % 2) + (b % 2)) % 2) + 2 * Xor(a \div 2, b \div 2)

\* ---- FunctionalList<T>: a pointer to a Cons cell, 0 is nullptr ----
NullPtr == 0

ListSize(z, p) == IF p = NullPtr THEN 0 ELSE z[p].size

TriviallyEquals(p, q) == p = q

PushFront(z, p, elem) ==
  [zone |-> Append(z, [top |-> elem, rest |-> p, size |-> ListSize(z, p) + 1]),
   data_ |-> Len(z) + 1]

\* The elements met by iterating begin()..end(), front first.
RECURSIVE ListSeq(_, _)
ListSeq(z, p) ==
  IF p = NullPtr THEN << >> ELSE <<z[p].top>> \o ListSeq(z, z[p].rest)

\* ---- FunctionalSet<T, EqualTo, Hasher> ----
EmptySet == [data_ |-> NullPtr, hash_ |-> 0]

Size(z, s) == ListSize(z, s.data_)

Hash(s) == s.hash_

\* for (auto const& l : list) if (equal_to(l, elem)) ...
RECURSIVE AnyEqual(_, _, _)
AnyEqual(z, p, elem) ==
  /\ p # NullPtr
  /\ (equal_to(z[p].top, elem) \/ AnyEqual(z, z[p].rest, elem))

Contains(z, s, elem) == AnyEqual(z, s.data_, elem)

RECURSIVE AllIn(_, _, _)
AllIn(z, s, p) ==
  \/ p = NullPtr
  \/ (Contains(z, s, z[p].top) /\ AllIn(z, s, z[p].rest))

Includes(z, s, other) == AllIn(z, s, other.data_)

Equals(z, s, other) ==
  \/ TriviallyEquals(s.data_, other.data_)
  \/ /\ Size(z, s) = Size(z, other)
     /\ Hash(s) = Hash(other)
     /\ Includes(z, s, other)
     /\ Includes(z, other, s)

\* Faulty variant: the membership scan is skipped, every Add prepends.
AddOpAlwaysPush(z, s, elem) ==
  LET r == PushFront(z, s.data_, elem)
  IN [zone |-> r.zone,
      this |-> [data_ |-> r.data_, hash_ |-> Xor(s.hash_, hasher(elem))]]

\* Faulty variant: an element already present is hashed in again.
AddOpRehash(z, s, elem) ==
  IF Contains(z, s, elem)
  THEN [zone |-> z, this |-> [s EXCEPT !.hash_ = Xor(s.hash_, hasher(elem))]]
  ELSE LET r == PushFront(z, s.data_, elem)
       IN [zone |-> r.zone,
           this |-> [data_ |-> r.data_, hash_ |-> Xor(s.hash_, hasher(elem))]]

AddOp(z, s, elem) ==
  IF Contains(z, s, elem)
  THEN [zone |-> z, this |-> s]
  ELSE LET r == PushFront(z, s.data_, elem)
       IN [zone |-> r.zone,
           this |-> [data_ |-> r.data_, hash_ |-> Xor(s.hash_, hasher(elem))]]

\* for (auto const& elem : other.data_) Add(elem, zone);
RECURSIVE AddAll(_, _, _)
AddAll(z, s, p) ==
  IF p = NullPtr THEN [zone |-> z, this |-> s]
  ELSE LET r == AddOp(z, s, z[p].top)
       IN AddAll(r.zone, r.this, z[p].rest)

\* Faulty variant: the smaller side is chosen as the tail.
UnionOpSmallerTail(z, s, other) ==
  IF TriviallyEquals(s.data_, other.data_)
  THEN [zone |-> z, this |-> s, other |-> other]
  ELSE LET sw == ListSize(z, s.data_) > ListSize(z, other.data_)
           s1 == IF sw THEN [s EXCEPT !.data_ = other.data_] ELSE s
           o1 == IF sw THEN [other EXCEPT !.data_ = s.data_] ELSE other
           r == AddAll(z, s1, o1.data_)
       IN [zone |-> r.zone, this |-> r.this, other |-> o1]

\* Faulty variant: after the swap the elements of the smaller side are not added.
UnionOpDropSmaller(z, s, other) ==
  IF TriviallyEquals(s.data_, other.data_)
  THEN [zone |-> z, this |-> s, other |-> other]
  ELSE IF ListSize(z, s.data_) < ListSize(z, other.data_)
  THEN [zone |-> z, this |-> [s EXCEPT !.data_ = other.data_],
        other |-> [other EXCEPT !.data_ = s.data_]]
  ELSE LET r == AddAll(z, s, other.data_)
       IN [zone |-> r.zone, this |-> r.this, other |-> other]

\* this and other are the callee's object and its by-value parameter.
UnionOp(z, s, other) ==
  IF TriviallyEquals(s.data_, other.data_)
  THEN [zone |-> z, this |-> s, other |-> other]
  ELSE LET sw == ListSize(z, s.data_) < ListSize(z, other.data_)
           s1 == IF sw THEN [s EXCEPT !.data_ = other.data_] ELSE s
           o1 == IF sw THEN [other EXCEPT !.data_ = s.data_] ELSE other
           r == AddAll(z, s1, o1.data_)
       IN [zone |-> r.zone, this |-> r.this, other |-> o1]

\* ---- observations ----
RECURSIVE ListElems(_, _)
ListElems(z, p) ==
  IF p = NullPtr THEN {} ELSE {z[p].top} \cup ListElems(z, z[p].rest)

Members(z, s) == ListElems(z, s.data_)

RECURSIVE XorOver(_)
XorOver(S) ==
  IF S = {} THEN 0
  ELSE LET e == CHOOSE x \in S : TRUE
       IN Xor(hasher(e), XorOver(S \ {e}))

Observe(z, s) ==
  [data_ |-> s.data_, hash_ |-> s.hash_,
   elems |-> Members(z, s), size |-> Size(z, s)]

Snapshot == [r \in Regs |-> Observe(zone, sets[r])]

\* ---- VirtualContext ----
VirtualContext(distance_in, context_in) ==
  [distance |-> distance_in, context |-> context_in]

\* Faulty variant: the check admits equality.
CheckGE(a, b) == a >= b

CheckGT(a, b) == a > b

VCEquals(a, b) == a.context = b.context /\ a.distance = b.distance

\* ---- the state machine of the sets ----
Init ==
  /\ zone = << >>
  /\ sets = [r \in Regs |-> EmptySet]
  /\ last = [op |-> "Init", self |-> 0, arg |-> 0,
             pre |-> [r \in Regs |-> Observe(<< >>, EmptySet)]]
  /\ vcs = {}
  /\ fatal = FALSE

Add(a, elem) ==
  LET r == AddOp(zone, sets[a], elem) IN
  /\ Len(r.zone) <= MaxCells
  /\ zone' = r.zone
  /\ sets' = [sets EXCEPT ![a] = r.this]
  /\ last' = [op |-> "Add", self |-> a, arg |-> elem, pre |-> Snapshot]
  /\ UNCHANGED <<vcs, fatal>>

\* Faulty variant: other is taken by reference, the swap reaches the caller's set.
UnionByRef(a, b) ==
  LET r == UnionOp(zone, sets[a], sets[b]) IN
  /\ Len(r.zone) <= MaxCells
  /\ zone' = r.zone
  /\ sets' = [[sets EXCEPT ![b] = r.other] EXCEPT ![a] = r.this]
  /\ last' = [op |-> "Union", self |-> a, arg |-> b, pre |-> Snapshot]
  /\ UNCHANGED <<vcs, fatal>>

Union(a, b) ==
  LET r == UnionOp(zone, sets[a], sets[b]) IN
  /\ Len(r.zone) <= MaxCells
  /\ zone' = r.zone
  /\ sets' = [sets EXCEPT ![a] = r.this]
  /\ last' = [op |-> "Union", self |-> a, arg |-> b, pre |-> Snapshot]
  /\ UNCHANGED <<vcs, fatal>>

\* FunctionalSet a(b): copy construction of a set not in use yet.
Copy(a, b) ==
  /\ a # b
  /\ sets[a] = EmptySet
  /\ sets' = [sets EXCEPT ![a] = sets[b]]
  /\ last' = [op |-> "Copy", self |-> a, arg |-> b, pre |-> Snapshot]
  /\ UNCHANGED <<zone, vcs, fatal>>

Next ==
  \/ \E a \in Regs, elem \in Elems : Add(a, elem)
  \/ \E a \in Regs, b \in Regs : Union(a, b)
  \/ \E a \in Regs, b \in Regs : Copy(a, b)

Spec == Init /\ [][Next]_vars

\* ---- the state machine of the VirtualContext objects ----
NewVirtualContext(distance_in, context_in) ==
  /\ ~fatal
  /\ IF CheckGT(VirtualContext(distance_in, context_in).distance, 0)
     THEN vcs' = vcs \cup {VirtualContext(distance_in, context_in)}
          /\ fatal' = fatal
     ELSE fatal' = TRUE /\ vcs' = vcs
  /\ last' = [op |-> "VirtualContext", self |-> 0, arg |-> distance_in,
              pre |-> last.pre]
  /\ UNCHANGED <<zone, sets>>

NextVC ==
  \E d \in 0..MaxDistance, c \in Contexts : NewVirtualContext(d, c)

SpecVC == Init /\ [][NextVC]_vars

\* ---- properties ----
PreSet(r) == [data_ |-> last.pre[r].data_, hash_ |-> last.pre[r].hash_]

NoDuplicates(q) ==
  \A i \in 1..Len(q), j \in 1..Len(q) : equal_to(q[i], q[j]) => i = j

\* C1: after A.Union(B), the result compares == to the result of B.Union(A)
\* computed from the same two operands.
C1_UnionCommutes ==
  last.op = "Union" =>
    LET y == UnionOp(zone, PreSet(last.arg), PreSet(last.self))
    IN Equals(y.zone, sets[last.self], y.this)

\* C2: two sets that compare == (the TriviallyEquals fast path included) have
\* the same Hash().
C2_EqualImpliesSameHash ==
  \A a \in Regs, b \in Regs :
     Equals(zone, sets[a], sets[b]) => Hash(sets[a]) = Hash(sets[b])

\* C3: operator== returns true exactly when the two sets hold the same
\* elements: no false rejection by the size-and-hash pre-check, and no
\* acceptance of sets whose memberships differ.
C3_EqualsIffSameMembers ==
  \A a \in Regs, b \in Regs :
     Equals(zone, sets[a], sets[b]) <=>
       (Includes(zone, sets[a], sets[b]) /\ Includes(zone, sets[b], sets[a]))

\* C4: Hash() is the XOR of hasher(e) over exactly the elements of the set.
C4_HashIsXorOfMembers ==
  \A a \in Regs : Hash(sets[a]) = XorOver(Members(zone, sets[a]))

\* C5: after A.Union(B) the elements of A are exactly the elements A and B
\* held before the call.
C5_UnionIsSetUnion ==
  last.op = "Union" =>
    Members(zone, sets[last.self]) =
      last.pre[last.self].elems \cup last.pre[last.arg].elems

C5_Witness ==
  /\ last.op = "Union"
  /\ last.pre[last.self].size < last.pre[last.arg].size
  /\ last.pre[last.self].elems \ last.pre[last.arg].elems # {}
  /\ last.pre[last.arg].elems \ last.pre[last.self].elems # {}

\* C6: no backing list holds two elements equal under EqualTo, and Size() is
\* the number of distinct elements of the set.
C6_NoDuplicatesAndSize ==
  \A a \in Regs :
     /\ NoDuplicates(ListSeq(zone, sets[a].data_))
     /\ Size(zone, sets[a]) = Cardinality(Members(zone, sets[a]))

C6_Witness ==
  /\ last.op = "Union"
  /\ last.pre[last.self].elems \cap last.pre[last.arg].elems # {}
  /\ Size(zone, sets[last.self]) > last.pre[last.self].size
  /\ Size(zone, sets[last.self]) > last.pre[last.arg].size

\* C7: right after Add(e), a second Add(e) changes neither the zone, the
\* backing list nor the hash; and an Add of an element that was already
\* present has left the backing list and the hash as they were.
C7_AddIdempotent ==
  last.op = "Add" =>
    /\ last.arg \in Members(zone, sets[last.self])
    /\ AddOp(zone, sets[last.self], last.arg) =
         [zone |-> zone, this |-> sets[last.self]]
    /\ last.arg \in last.pre[last.self].elems =>
         /\ sets[last.self] = PreSet(last.self)
         /\ Size(zone, sets[last.self]) = last.pre[last.self].size

C7_Witness ==
  /\ last.op = "Add"
  /\ last.arg \in last.pre[last.self].elems
  /\ last.pre[last.self].size >= 2

\* C8: after U = A.Union(B), U.Union(A) and U.Union(B) leave the membership,
\* Size() and Hash() of U unchanged.
C8_ReunionIsNoop ==
  last.op = "Union" =>
    \A o \in {last.self, last.arg} :
       LET r == UnionOp(zone, sets[last.self], PreSet(o))
       IN /\ Members(r.zone, r.this) = Members(zone, sets[last.self])
          /\ Size(r.zone, r.this) = Size(zone, sets[last.self])
          /\ Hash(r.this) = Hash(sets[last.self])

C8_Witness ==
  /\ last.op = "Union"
  /\ last.pre[last.self].size # last.pre[last.arg].size
  /\ last.pre[last.self].size > 0
  /\ last.pre[last.arg].size > 0
  /\ sets[last.self].data_ # last.pre[last.self].data_
  /\ sets[last.self].data_ # last.pre[last.arg].data_

\* C9: a constructor call with distance 0 is fatal and creates no object,
\* every VirtualContext that exists has distance > 0, and two VirtualContexts
\* that compare equal agree on both the context and the distance.
C9_DistancePositive ==
  /\ (last.op = "VirtualContext" /\ last.arg = 0) => fatal
  /\ \A v \in vcs : v.distance > 0
  /\ \A v \in vcs, w \in vcs : VCEquals(v, w) => v = w

C9_Witness ==
  /\ fatal
  /\ last.arg = 0
  /\ \E v \in vcs, w \in vcs : v.context = w.context /\ v.distance # w.distance

\* C10: Add and Union on one set leave the membership, Size() and Hash() of
\* every other set as they were, also when the sets share list structure.
C10_OtherSetsUnchanged ==
  last.op \in {"Add", "Union"} =>
    \A r \in Regs \ {last.self} :
       /\ Members(zone, sets[r]) = last.pre[r].elems
       /\ Size(zone, sets[r]) = last.pre[r].size
       /\ Hash(sets[r]) = last.pre[r].hash_

C10_Witness ==
  /\ last.op = "Union"
  /\ last.self # last.arg
  /\ last.pre[last.self].size < last.pre[last.arg].size
  /\ sets[last.self].data_ # NullPtr
  /\ zone[sets[last.self].data_].rest = sets[last.arg].data_

====
